---- MODULE Spec2Model ----
(***************************************************************************)
(* Model of lclstreamer's Hdf5BinarySerializer                             *)
(* (src/lclstreamer/frontend/data_serializers/file_formats.py).            *)
(*                                                                         *)
(* __init__ resolves the compression option into the keyword arguments     *)
(* later given to every create_dataset call and stores the field mapping.  *)
(* __call__ is a generator: each next() of the consumer resumes it, it     *)
(* pulls one batch from the upstream iterator, checks the depths, checks   *)
(* the keys, writes one in-memory HDF5 file and yields its bytes.          *)
(*                                                                         *)
(* Python dicts are insertion ordered: a dict is a sequence of             *)
(* [key, value] records with distinct keys.  An array is represented by    *)
(* its shape; a blob by the sequence of datasets of the file, in creation  *)
(* order.                                                                  *)
(***************************************************************************)
EXTENDS Naturals, Integers, Sequences, FiniteSets, TLC

VARIABLES
    parameters,           \* the DataSerializerParameters given to __init__
    compression_options,  \* self._compression_options
    hdf5_fields,          \* self._hdf5_fields
    pc,                   \* position of the constructor / the generator
    requests,             \* number of next() calls made by the consumer
    pulled,               \* batches obtained from `stream`, in order
    data,                 \* the loop variable `data`
    fh,                   \* datasets created so far in the open h5py.File
    idx,                  \* position of `for data_block_name in data`
    yielded,              \* blobs handed to the consumer, in order
    error                 \* how the run ended abnormally, if it did

vars == <<parameters, compression_options, hdf5_fields, pc, requests, pulled,
          data, fh, idx, yielded, error>>

-----------------------------------------------------------------------------
(* Bounds *)

MaxDepth == 2

MaxBatches == 2

MaxLevel == 4

-----------------------------------------------------------------------------
(* Values *)

NoneValue == [isNone |-> TRUE, shape |-> <<>>]

Array(d) == [isNone |-> FALSE, shape |-> <<d>>]

Values == {NoneValue} \cup {Array(d) : d \in 0..MaxDepth}

BatchKeys == {"a", "b", "foo"}

Entries == [key : BatchKeys, value : Values]

DictKeys(d) == {d[i].key : i \in DOMAIN d}

DistinctKeys(d) == \A i, j \in DOMAIN d : d[i].key = d[j].key => i = j

Batches ==
    {b \in UNION {[1..n -> Entries] : n \in 0..Cardinality(BatchKeys)} :
        DistinctKeys(b)}

Lookup(d, k) == d[CHOOSE i \in DOMAIN d : d[i].key = k].value

FieldMappings ==
    { << [key |-> "a", value |-> "alpha"], [key |-> "b", value |-> "beta"] >>,
      << [key |-> "a", value |-> "alpha"], [key |-> "b", value |-> "alpha"] >> }

Levels == 0..MaxLevel

CompressionNames ==
    {"none", "gzip", "gzip_with_shuffle", "bitshuffle_with_lz4",
     "bitshuffle_with_zstd", "zfp", "lzf"}

NoParameters == [present |-> FALSE, compression |-> "none",
                 compression_level |-> 0, fields |-> <<>>]

AllParameters ==
    {NoParameters} \cup
    [present : {TRUE}, compression : CompressionNames,
     compression_level : Levels, fields : FieldMappings]

NoError == [kind |-> "none", names |-> {}]

-----------------------------------------------------------------------------
(* __init__ *)

\* A keyword that the dict does not hold is "absent" (-1 for a number).
Absent == "absent"

NoOptions ==
    [compression |-> Absent, compression_opts |-> -1, shuffle |-> Absent,
     cname |-> Absent, clevel |-> -1]

\* Variant: the byte-shuffle flags of the two gzip options exchanged.
CompressionOptions_ShuffleSwapped(compression, level) ==
    IF compression = "gzip" THEN
        [NoOptions EXCEPT !.compression = "gzip", !.compression_opts = level,
                          !.shuffle = "True"]
    ELSE IF compression = "gzip_with_shuffle" THEN
        [NoOptions EXCEPT !.compression = "gzip", !.compression_opts = level,
                          !.shuffle = "False"]
    ELSE IF compression = "bitshuffle_with_lz4" THEN
        [NoOptions EXCEPT !.compression = "Bitshuffle", !.cname = "lz4",
                          !.clevel = level]
    ELSE IF compression = "bitshuffle_with_zstd" THEN
        [NoOptions EXCEPT !.compression = "Bitshuffle", !.cname = "zstd",
                          !.clevel = level]
    ELSE IF compression = "zfp" THEN
        [NoOptions EXCEPT !.compression = "Zfp"]
    ELSE
        NoOptions

CompressionOptions(compression, level) ==
    IF compression = "gzip" THEN
        [NoOptions EXCEPT !.compression = "gzip", !.compression_opts = level,
                          !.shuffle = "False"]
    ELSE IF compression = "gzip_with_shuffle" THEN
        [NoOptions EXCEPT !.compression = "gzip", !.compression_opts = level,
                          !.shuffle = "True"]
    ELSE IF compression = "bitshuffle_with_lz4" THEN
        [NoOptions EXCEPT !.compression = "Bitshuffle", !.cname = "lz4",
                          !.clevel = level]
    ELSE IF compression = "bitshuffle_with_zstd" THEN
        [NoOptions EXCEPT !.compression = "Bitshuffle", !.cname = "zstd",
                          !.clevel = level]
    ELSE IF compression = "zfp" THEN
        [NoOptions EXCEPT !.compression = "Zfp"]
    ELSE
        NoOptions

Construct ==
    /\ pc = "init"
    /\ IF ~parameters.present
       THEN /\ pc' = "exited"
            /\ error' = [kind |-> "NoParameters", names |-> {}]
            /\ UNCHANGED <<compression_options, hdf5_fields>>
       ELSE /\ compression_options' =
                  CompressionOptions(parameters.compression,
                                     parameters.compression_level)
            /\ hdf5_fields' = parameters.fields
            /\ pc' = "ready"
            /\ UNCHANGED error
    /\ UNCHANGED <<parameters, requests, pulled, data, fh, idx, yielded>>

-----------------------------------------------------------------------------
(* __call__ *)

\* The consumer calls next() on the generator, which resumes.
Request ==
    /\ pc = "ready"
    /\ pc' = "pull"
    /\ requests' = requests + 1
    /\ UNCHANGED <<parameters, compression_options, hdf5_fields, pulled, data,
                   fh, idx, yielded, error>>

\* `for data in stream`: the upstream iterator delivers a batch.
PullBatch ==
    /\ pc = "pull"
    /\ Len(pulled) < MaxBatches
    /\ \E b \in Batches :
          /\ data' = b
          /\ pulled' = Append(pulled, b)
    /\ pc' = "check_depth"
    /\ UNCHANGED <<parameters, compression_options, hdf5_fields, requests, fh,
                   idx, yielded, error>>

\* `for data in stream`: the upstream iterator is exhausted.
StreamEnd ==
    /\ pc = "pull"
    /\ pc' = "done"
    /\ UNCHANGED <<parameters, compression_options, hdf5_fields, requests,
                   pulled, data, fh, idx, yielded, error>>

\* Variant: only the first present array is measured.
depth_of_data_blocks_FirstOnly(d) ==
    IF \E i \in DOMAIN d : ~d[i].value.isNone
    THEN <<d[CHOOSE i \in DOMAIN d :
                /\ ~d[i].value.isNone
                /\ \A j \in 1..(i - 1) : d[j].value.isNone].value.shape[1]>>
    ELSE <<>>

\* Variant: an absent field counts as an array of depth 0.
depth_of_data_blocks_NoneAsZero(d) ==
    [i \in DOMAIN d |-> IF d[i].value.isNone THEN 0 ELSE d[i].value.shape[1]]

RECURSIVE depth_of_data_blocks(_)
depth_of_data_blocks(d) ==
    IF d = <<>> THEN <<>>
    ELSE IF Head(d).value.isNone THEN depth_of_data_blocks(Tail(d))
    ELSE <<Head(d).value.shape[1]>> \o depth_of_data_blocks(Tail(d))

SetOf(s) == {s[i] : i \in DOMAIN s}

\* Variant: the error is logged but the batch is processed all the same.
CheckDepth_Continue ==
    /\ pc = "check_depth"
    /\ pc' = "check_entries"
    /\ UNCHANGED <<parameters, compression_options, hdf5_fields, requests,
                   pulled, data, fh, idx, yielded, error>>

\* Variant: only two or more distinct depths are an error.
CheckDepth_AtMostOne ==
    /\ pc = "check_depth"
    /\ IF Cardinality({depth_of_data_blocks(data)[i] :
                          i \in DOMAIN depth_of_data_blocks(data)}) > 1
       THEN /\ pc' = "exited"
            /\ error' = [kind |-> "DifferentDepths", names |-> {}]
       ELSE /\ pc' = "check_entries"
            /\ UNCHANGED error
    /\ UNCHANGED <<parameters, compression_options, hdf5_fields, requests,
                   pulled, data, fh, idx, yielded>>

CheckDepth ==
    /\ pc = "check_depth"
    /\ IF Cardinality(SetOf(depth_of_data_blocks(data))) # 1
       THEN /\ pc' = "exited"
            /\ error' = [kind |-> "DifferentDepths", names |-> {}]
       ELSE /\ pc' = "check_entries"
            /\ UNCHANGED error
    /\ UNCHANGED <<parameters, compression_options, hdf5_fields, requests,
                   pulled, data, fh, idx, yielded>>

\* Variant: the set difference taken the other way round.
mismatching_entries_Reversed(d, fields) == DictKeys(fields) \ DictKeys(d)

mismatching_entries(d, fields) == DictKeys(d) \ DictKeys(fields)

CheckEntries ==
    /\ pc = "check_entries"
    /\ IF Cardinality(mismatching_entries(data, hdf5_fields)) # 0
       THEN /\ pc' = "exited"
            /\ error' = [kind |-> "MismatchingEntries",
                         names |-> mismatching_entries(data, hdf5_fields)]
            /\ UNCHANGED <<fh, idx>>
       ELSE /\ pc' = "write"
            /\ fh' = <<>>
            /\ idx' = 1
            /\ UNCHANGED error
    /\ UNCHANGED <<parameters, compression_options, hdf5_fields, requests,
                   pulled, data, yielded>>

\* The dataset that create_dataset adds to the file.
Dataset(name, data_block, options) ==
    [name |-> name, shape |-> data_block.shape,
     chunks |-> <<1>> \o Tail(data_block.shape), options |-> options]

\* create_dataset raises: data_block[0] of an array of length 0 is an
\* IndexError, and a name the file already holds is a ValueError.
CreateFails(file, name, data_block) ==
    \/ data_block.shape[1] = 0
    \/ \E i \in DOMAIN file : file[i].name = name

\* Variant: the mapped keys are visited in the order of the field mapping.
data_block_names_FieldOrder(d) ==
    LET m == SelectSeq(hdf5_fields, LAMBDA e : e.key \in DictKeys(d))
        u == SelectSeq(d, LAMBDA e : e.key \notin DictKeys(hdf5_fields))
    IN [i \in 1..(Len(m) + Len(u)) |->
           IF i <= Len(m) THEN m[i].key ELSE u[i - Len(m)].key]

\* The keys of a dict in the order `for data_block_name in data` visits them.
data_block_names(d) == [i \in DOMAIN d |-> d[i].key]

\* One iteration of `for data_block_name in data`.
WriteEntry ==
    /\ pc = "write"
    /\ idx <= Len(data)
    /\ LET data_block_name == data_block_names(data)[idx]
           data_block == Lookup(data, data_block_name)
       IN IF data_block_name \in DictKeys(hdf5_fields) /\ ~data_block.isNone
          THEN IF CreateFails(fh, Lookup(hdf5_fields, data_block_name),
                              data_block)
               THEN /\ pc' = "exited"
                    /\ error' = [kind |-> "WriteError", names |-> {}]
                    /\ fh' = <<>>
                    /\ UNCHANGED idx
               ELSE /\ fh' = Append(fh,
                              Dataset(Lookup(hdf5_fields, data_block_name),
                                      data_block, compression_options))
                    /\ idx' = idx + 1
                    /\ UNCHANGED <<pc, error>>
          ELSE /\ idx' = idx + 1
               /\ UNCHANGED <<pc, error, fh>>
    /\ UNCHANGED <<parameters, compression_options, hdf5_fields, requests,
                   pulled, data, yielded>>

\* Variant: the new blob is put in front of the earlier ones.
YieldBlob_Prepend ==
    /\ pc = "write"
    /\ idx > Len(data)
    /\ yielded' = <<fh>> \o yielded
    /\ fh' = <<>>
    /\ pc' = "ready"
    /\ UNCHANGED <<parameters, compression_options, hdf5_fields, requests,
                   pulled, data, idx, error>>

\* Variant: the generator goes on to the next batch without being resumed.
YieldBlob_PullAhead ==
    /\ pc = "write"
    /\ idx > Len(data)
    /\ yielded' = Append(yielded, fh)
    /\ fh' = <<>>
    /\ pc' = "pull"
    /\ UNCHANGED <<parameters, compression_options, hdf5_fields, requests,
                   pulled, data, idx, error>>

\* The file is closed and `yield byte_block.getvalue()` suspends the generator.
YieldBlob ==
    /\ pc = "write"
    /\ idx > Len(data)
    /\ yielded' = Append(yielded, fh)
    /\ fh' = <<>>
    /\ pc' = "ready"
    /\ UNCHANGED <<parameters, compression_options, hdf5_fields, requests,
                   pulled, data, idx, error>>

-----------------------------------------------------------------------------
(* Specifications *)

Idle ==
    /\ requests = 0
    /\ pulled = <<>>
    /\ data = <<>>
    /\ fh = <<>>
    /\ idx = 1
    /\ yielded = <<>>
    /\ error = NoError

\* Before construction: any configuration record.
InitNew ==
    /\ parameters \in AllParameters
    /\ compression_options = NoOptions
    /\ hdf5_fields = <<>>
    /\ pc = "init"
    /\ Idle

NextNew == Construct

SpecNew == InitNew /\ [][NextNew]_vars

\* The configurations the generator is explored under: one compression
\* option, and a field mapping onto distinct dataset names.
PipelineParameters ==
    {p \in AllParameters :
        /\ p.present
        /\ p.compression = "gzip_with_shuffle"
        /\ p.compression_level = MaxLevel
        /\ \A i, j \in DOMAIN p.fields :
              p.fields[i].value = p.fields[j].value => i = j}

\* After construction, the generator not yet started.
Init ==
    /\ parameters \in PipelineParameters
    /\ compression_options =
          CompressionOptions(parameters.compression,
                             parameters.compression_level)
    /\ hdf5_fields = parameters.fields
    /\ pc = "ready"
    /\ Idle

Next ==
    \/ Request
    \/ PullBatch
    \/ StreamEnd
    \/ CheckDepth
    \/ CheckEntries
    \/ WriteEntry
    \/ YieldBlob

Spec == Init /\ [][Next]_vars

-----------------------------------------------------------------------------
(* Properties of a batch, stated independently of the code's checks *)

Present(b) == {i \in DOMAIN b : ~b[i].value.isNone}

Depths(b) == {b[i].value.shape[1] : i \in Present(b)}

AllMapped(b) == DictKeys(b) \subseteq DictKeys(hdf5_fields)

\* No two present arrays disagree on the axis-0 length.
AgreeOnDepth(b) ==
    \A i, j \in Present(b) : b[i].value.shape[1] = b[j].value.shape[1]

\* The set of depths of the present arrays is a singleton (I1) and every key
\* is mapped (I2).
PassesValidation(b) == Cardinality(Depths(b)) = 1 /\ AllMapped(b)

\* Every dataset of the batch can be created: no array of length 0 along
\* axis 0, and no two present fields mapped to one dataset name.
Writable(b) ==
    LET P == Present(b)
        K == DictKeys(hdf5_fields)
    IN /\ \A i \in P : b[i].value.shape[1] >= 1
       /\ \A i, j \in P :
             (/\ i # j
              /\ b[i].key \in K
              /\ b[j].key \in K)
             => Lookup(hdf5_fields, b[i].key) # Lookup(hdf5_fields, b[j].key)

PresentEntries(b) == SelectSeq(b, LAMBDA e : ~e.value.isNone)

\* The container of a batch: one dataset per present entry.
ExpectedBlob(b) ==
    LET s == PresentEntries(b)
    IN [i \in 1..Len(s) |->
           [name |-> Lookup(hdf5_fields, s[i].key),
            shape |-> s[i].value.shape,
            chunks |-> <<1>> \o Tail(s[i].value.shape),
            options |-> compression_options]]

DatasetNames(blob) == {blob[i].name : i \in DOMAIN blob}

Halted == pc \in {"done", "exited"}

-----------------------------------------------------------------------------
(* Claims *)

FailingBatch(b) == ~(PassesValidation(b) /\ Writable(b))

\* C2: in every reachable state, a batch that fails validation or fails while
\* being written is the last batch pulled, the blobs yielded are exactly those
\* of the batches before it, the generator never reaches its yield for it,
\* and the run ends with an error.
C2_FailFast ==
    \A k \in DOMAIN pulled :
        FailingBatch(pulled[k]) =>
            /\ k = Len(pulled)
            /\ Len(yielded) = k - 1
            /\ \A i \in 1..(k - 1) : yielded[i] = ExpectedBlob(pulled[i])
            /\ pc \in {"check_depth", "check_entries", "write", "exited"}
            /\ pc = "write" => idx <= Len(data)
            /\ pc = "exited" => error.kind # "none"

C2_Witness ==
    /\ pc = "exited"
    /\ Len(pulled) = 2
    /\ Len(yielded) = 1
    /\ error.kind = "WriteError"

\* C3: a batch in which two present arrays differ in axis-0 length is stopped
\* by the depth check: it is the last batch pulled, it gets no blob, and the
\* run ends with the different-depths error.  Absent fields contribute no
\* depth: that error is raised only when the depths of the present arrays of
\* the batch do not form a singleton.
C3_DepthInvariant ==
    /\ \A k \in DOMAIN pulled :
          ~AgreeOnDepth(pulled[k]) =>
              /\ k = Len(pulled)
              /\ Len(yielded) = k - 1
              /\ pc \in {"check_depth", "exited"}
              /\ pc = "exited" => error.kind = "DifferentDepths"
    /\ error.kind = "DifferentDepths" =>
          Cardinality(Depths(pulled[Len(pulled)])) # 1

C3_Witness ==
    /\ pc = "exited"
    /\ error.kind = "DifferentDepths"
    /\ yielded = <<>>
    /\ ~AgreeOnDepth(pulled[Len(pulled)])
    /\ \E i \in DOMAIN pulled[Len(pulled)] :
          pulled[Len(pulled)][i].value.isNone

UnmappedKeys(b) == DictKeys(b) \ DictKeys(hdf5_fields)

\* C4 (as stated): a batch holding an unmapped key, whatever else it holds,
\* gets no blob and ends the run with the unmapped-fields error naming
\* exactly the batch's keys that are not keys of the field mapping.
C4_AsStated ==
    \A k \in DOMAIN pulled :
        UnmappedKeys(pulled[k]) # {} =>
            /\ Len(yielded) < k
            /\ pc = "exited" =>
                  /\ error.kind = "MismatchingEntries"
                  /\ error.names = UnmappedKeys(pulled[k])

\* C4 (amended): a batch holding an unmapped key gets no blob and is the last
\* batch pulled.  When the depths of its present arrays form a singleton the
\* run ends with the unmapped-fields error naming exactly the batch's keys
\* that are not keys of the field mapping; otherwise the depth check, which
\* runs first, ends it with the different-depths error.
C4_UnmappedFields ==
    \A k \in DOMAIN pulled :
        UnmappedKeys(pulled[k]) # {} =>
            /\ k = Len(pulled)
            /\ Len(yielded) = k - 1
            /\ pc \in {"check_depth", "check_entries", "exited"}
            /\ (pc = "exited" /\ Cardinality(Depths(pulled[k])) = 1) =>
                  /\ error.kind = "MismatchingEntries"
                  /\ error.names = UnmappedKeys(pulled[k])
            /\ (pc = "exited" /\ Cardinality(Depths(pulled[k])) # 1) =>
                  error.kind = "DifferentDepths"

C4_Witness ==
    /\ pc = "exited"
    /\ error.kind = "MismatchingEntries"
    /\ error.names = {"foo"}
    /\ Len(pulled[Len(pulled)]) >= 2
    /\ Len(yielded) = Len(pulled) - 1

\* The dataset names a batch should produce: those of its present fields.
NamesOfPresent(b) ==
    {Lookup(hdf5_fields, b[i].key) : i \in Present(b)}

HasAbsent(b) == \E i \in DOMAIN b : b[i].value.isNone

Enumeration ==
    {"none", "gzip", "gzip_with_shuffle", "bitshuffle_with_lz4",
     "bitshuffle_with_zstd", "zfp"}

\* C6: a serializer given a compression option outside the enumeration is
\* never constructed.
C6_UnrecognizedOptionFails ==
    (parameters.present /\ parameters.compression \notin Enumeration)
    => pc # "ready"

\* C7: after construction the keyword arguments are those of the table, for
\* every option of the enumeration and every level: none gives no filter;
\* gzip gives deflate at the level without byte shuffle; gzip_with_shuffle
\* gives deflate at the level with byte shuffle; bitshuffle_with_lz4 and
\* bitshuffle_with_zstd give bitshuffle with codec lz4 and zstd at the level;
\* zfp gives zfp with no parameter.  No level appears for none and zfp.
C7_CompressionTable ==
    (pc = "ready" /\ parameters.compression \in Enumeration) =>
        LET c == parameters.compression
            l == parameters.compression_level
            o == compression_options
        IN /\ c = "none" => o = NoOptions
           /\ c = "gzip" =>
                 /\ o.compression = "gzip" /\ o.compression_opts = l
                 /\ o.shuffle = "False"
                 /\ o.cname = Absent /\ o.clevel = -1
           /\ c = "gzip_with_shuffle" =>
                 /\ o.compression = "gzip" /\ o.compression_opts = l
                 /\ o.shuffle = "True"
                 /\ o.cname = Absent /\ o.clevel = -1
           /\ c = "bitshuffle_with_lz4" =>
                 /\ o.compression = "Bitshuffle" /\ o.cname = "lz4"
                 /\ o.clevel = l
                 /\ o.compression_opts = -1 /\ o.shuffle = Absent
           /\ c = "bitshuffle_with_zstd" =>
                 /\ o.compression = "Bitshuffle" /\ o.cname = "zstd"
                 /\ o.clevel = l
                 /\ o.compression_opts = -1 /\ o.shuffle = Absent
           /\ c = "zfp" =>
                 /\ o.compression = "Zfp"
                 /\ o.compression_opts = -1 /\ o.clevel = -1
                 /\ o.shuffle = Absent /\ o.cname = Absent

C7_Witness ==
    /\ pc = "ready"
    /\ parameters.compression = "gzip_with_shuffle"
    /\ parameters.compression_level = MaxLevel
    /\ compression_options.compression_opts = MaxLevel

\* C8: the generator never holds more than one batch that has no blob yet; a
\* batch is requested from upstream only when the consumer has asked for a
\* blob beyond those it already has; and every blob yielded is the complete
\* container of a batch that passed validation.
C8_NoPullAhead ==
    /\ Len(pulled) - Len(yielded) \in {0, 1}
    /\ Len(pulled) <= requests
    /\ requests <= Len(yielded) + 1
    /\ pc \in {"ready", "pull", "done"} => Len(pulled) = Len(yielded)
    /\ pc = "pull" => requests = Len(yielded) + 1
    /\ \A k \in DOMAIN yielded :
          /\ PassesValidation(pulled[k])
          /\ Len(yielded[k]) = Cardinality(Present(pulled[k]))

C8_Witness ==
    /\ pc = "pull"
    /\ Len(yielded) = 1
    /\ Len(pulled) = 1
    /\ requests = 2

\* The position in the field mapping of the key written as dataset `name`.
FieldPosition(name) ==
    CHOOSE i \in DOMAIN hdf5_fields : hdf5_fields[i].value = name

\* The position in batch b of the present entry written as dataset `name`.
BatchPosition(b, name) ==
    CHOOSE i \in Present(b) : Lookup(hdf5_fields, b[i].key) = name

C10_NoPresentFieldRejected ==
    /\ \A k \in DOMAIN pulled :
          Present(pulled[k]) = {} =>
              /\ k = Len(pulled)
              /\ Len(yielded) = k - 1
              /\ pc \in {"check_depth", "exited"}
              /\ pc = "exited" => error.kind = "DifferentDepths"
    /\ \A k \in DOMAIN yielded : Len(yielded[k]) >= 1

C10_Witness ==
    /\ pc = "exited"
    /\ error.kind = "DifferentDepths"
    /\ Present(pulled[Len(pulled)]) = {}
    /\ pulled[Len(pulled)] # <<>>
    /\ AllMapped(pulled[Len(pulled)])

====
